---- MODULE Spec2Model ----
(***************************************************************************)
(* Model of color_dominant.py: the color extractor with its process-wide   *)
(* cache, the palette renderer, the directory analyzer and the directory   *)
(* mode of main.                                                           *)
(*                                                                         *)
(* Strings whose characters the code inspects (file names, hex colors)     *)
(* are sequences of one-character strings.  A float in [0, 1] is a pair    *)
(* <<num, den>> standing for num / den.  A path is <<root, file>>, the     *)
(* two arguments of os.path.join.                                          *)
(***************************************************************************)
EXTENDS Integers, Sequences, FiniteSets, TLC

\* ------------------------------------------------------------------ bounds
\* Largest num_colors a caller passes.
MaxK == 2

\* ------------------------------------------------------- strings and files
aPNG == <<"a", ".", "P", "N", "G">>
nTXT == <<"n", ".", "t", "x", "t">>

Roots == <<"d", "d/s">>
\* the directory main is given: the top of the tree
Directories == {"d"}

\* The files that may exist: the same file name in two directories of the
\* tree, with an upper-case extension, and a file that is no image by name.
Paths == {<<"d", aPNG>>, <<"d/s", aPNG>>, <<"d", nTXT>>}

Range(s) == {s[i] : i \in DOMAIN s}

lower(s) ==
  [i \in DOMAIN s |->
     CASE s[i] = "P" -> "p"
       [] s[i] = "N" -> "n"
       [] s[i] = "G" -> "g"
       [] OTHER -> s[i]]

endswith(s, suffix) ==
  /\ Len(suffix) <= Len(s)
  /\ SubSeq(s, Len(s) - Len(suffix) + 1, Len(s)) = suffix

SUPPORTED_FORMATS ==
  { <<".", "p", "n", "g">>, <<".", "j", "p", "g">>, <<".", "j", "p", "e", "g">>,
    <<".", "b", "m", "p">>, <<".", "t", "i", "f", "f">> }

\* ------------------------------------------------------------------ images
Red == <<255, 0, 0>>
Blue == <<0, 0, 255>>

\* Decodable rasters, as the flattened pixel list: a solid one-pixel image
\* and a two-pixel image of two colors.
Images == { <<Red>>, <<Red, Blue>> }

Absent == [kind |-> "absent"]
Corrupt == [kind |-> "corrupt"]
Image(px) == [kind |-> "image", pixels |-> px]

Contents == {Absent, Corrupt} \cup {Image(px) : px \in Images}

\* What a path can hold: anything for the .PNG files; the .txt file is
\* missing or is an image under a name that is not an image's.
ContentsOf(p) == IF p[2] = nTXT THEN {Absent, Image(<<Red>>)} ELSE Contents

FileSystems == {d \in [Paths -> Contents] : \A p \in Paths : d[p] \in ContentsOf(p)}

\* -------------------------------------------------------------- hex colors
HexDigits == <<"0", "1", "2", "3", "4", "5", "6", "7",
               "8", "9", "a", "b", "c", "d", "e", "f">>

\* int(s, 16) of a two-character string
HexValue(c) == CHOOSE v \in 0..15 : HexDigits[v + 1] = c
int16(s) == 16 * HexValue(s[1]) + HexValue(s[2])

\* round(num / den): Python rounds halves to the even neighbour
round(num, den) ==
  LET q == num \div den
      r == num % den
  IN  IF 2 * r < den THEN q
      ELSE IF 2 * r > den THEN q + 1
      ELSE IF q % 2 = 0 THEN q ELSE q + 1

\* format(v, "02x")
format02x(v) == <<HexDigits[(v \div 16) + 1], HexDigits[(v % 16) + 1]>>

\* matplotlib.colors.rgb2hex of a triple of floats <<num, den>> in [0, 1]
rgb2hex(c) ==
  <<"#">> \o format02x(round(c[1][1] * 255, c[1][2]))
          \o format02x(round(c[2][1] * 255, c[2][2]))
          \o format02x(round(c[3][1] * 255, c[3][2]))

\* --------------------------------------------------------------- clustering
\* pixels / 255.0: every channel becomes the float  value / 255
normalize(pixels) ==
  [i \in DOMAIN pixels |-> [ch \in 1..3 |-> <<pixels[i][ch], 255>>]]

RECURSIVE ChannelSum(_, _)
ChannelSum(X, ch) ==
  IF X = <<>> THEN 0 ELSE X[1][ch][1] + ChannelSum(Tail(X), ch)

\* the centroid of all the points of X (every point has denominator 255)
Centroid(X) == [ch \in 1..3 |-> <<ChannelSum(X, ch), 255 * Len(X)>>]

Failure == [ok |-> FALSE]
Centers(c) == [ok |-> TRUE, centers |-> c]

\* KMeans(n_clusters = k).fit(X).cluster_centers_: the outcomes the library
\* can produce.  It raises for k < 1 and for more clusters than samples; one
\* cluster is the centroid; as many clusters as (distinct) samples are the
\* samples themselves, in an order the unseeded initialisation picks.
KMeans(X, k) ==
  IF k < 1 \/ k > Len(X) THEN {Failure}
  ELSE IF k = 1 THEN {Centers(<<Centroid(X)>>)}
  ELSE {Centers(c) : c \in {s \in [1..k -> Range(X)] :
                              \A i, j \in 1..k : s[i] = s[j] => i = j}}

\* ----------------------------------------------------------------- state
VARIABLES
  disk,              \* the file system: content of every path
  color_cache,       \* the module-level cache: path -> list of hex colors
  pc,                \* "idle", or "walk" while analyze_directory loops
  todo,              \* the files os.walk has still to yield
  num_colors,        \* arguments of the running analyze_directory
  display_palette,
  aggregate,
  results,           \* its locals: the ordered dict, as <<file, colors>> pairs
  aggregate_colors,
  image_count,
  listed,            \* history: every file the walk yields, in order
  invoked,           \* history: the extractor calls of the walk, with results
  last,              \* observation of the latest extract_colors call
  out,               \* observation of the latest main(directory = ...) call
  first              \* history: per path, the first non-empty list returned

vars == <<disk, color_cache, pc, todo, num_colors, display_palette, aggregate,
          results, aggregate_colors, image_count, listed, invoked, last, out,
          first>>

Ks == 1..MaxK

\* the paths callers hand to extract_colors themselves: the image files
Requested == {p \in Paths : p[2] = aPNG}

\* ---------------------------------------------------------- extract_colors
exists(image_path) == disk[image_path] # Absent

\* mutant: the cache is written and never consulted
cachedNever(image_path) == FALSE

cached(image_path) == image_path \in DOMAIN color_cache

\* mutant: the except clauses log and raise again
handlerReraise(cache, render) ==
  [ret |-> <<>>, cache |-> cache, errors |-> 1, raised |-> TRUE,
   render |-> render, hit |-> FALSE]

\* both except clauses: one logging.error, then return []
handler(cache, render) ==
  [ret |-> <<>>, cache |-> cache, errors |-> 1, raised |-> FALSE,
   render |-> render, hit |-> FALSE]

returned(ret, cache, render, hit) ==
  [ret |-> ret, cache |-> cache, errors |-> 0, raised |-> FALSE,
   render |-> render, hit |-> hit]

\* display_color_palette: "ok" when every swatch was drawn, "failed" when it
\* raised.  plt.subplots(1, 1) returns one Axes, which ax[i] cannot index, so
\* a palette of one color always raises; otherwise the plotting backend
\* decides.
display_color_palette(dominant_colors) ==
  IF Len(dominant_colors) = 1 THEN {"failed"} ELSE {"ok", "failed"}

\* The outcomes of one call: the value returned, the cache afterwards, the
\* error-level log entries emitted, whether an exception left the call,
\* what the renderer did, and whether the cache answered.
extract_colors(image_path, k, show) ==
  IF ~exists(image_path) THEN {handler(color_cache, "none")}
  ELSE IF cached(image_path)
    THEN {returned(color_cache[image_path], color_cache, "none", TRUE)}
  ELSE IF disk[image_path] = Corrupt THEN {handler(color_cache, "none")}
  ELSE
    UNION {
      IF ~km.ok THEN {handler(color_cache, "none")}
      ELSE
        LET dominant_colors_hex ==
              [i \in 1..Len(km.centers) |-> rgb2hex(km.centers[i])]
            stored == (image_path :> dominant_colors_hex) @@ color_cache
        IN  IF ~show THEN {returned(dominant_colors_hex, stored, "none", FALSE)}
            ELSE { IF r = "ok"
                     THEN returned(dominant_colors_hex, stored, "ok", FALSE)
                     ELSE handler(stored, "failed")
                   : r \in display_color_palette(dominant_colors_hex) }
      : km \in KMeans(normalize(disk[image_path].pixels), k) }

NoCall ==
  [op |-> "none", path |-> <<"d", aPNG>>, k |-> 1,
   existed |-> FALSE, prev |-> <<>>, ret |-> <<>>, errors |-> 0,
   raised |-> FALSE, render |-> "none", hit |-> FALSE, cacheSame |-> TRUE,
   stored |-> <<>>]

\* what a caller of extract_colors(p, k, show) observes of outcome o
Observe(p, k, o) ==
  [op |-> "extract", path |-> p, k |-> k,
   existed |-> exists(p), prev |-> first[p], ret |-> o.ret,
   errors |-> o.errors, raised |-> o.raised, render |-> o.render,
   hit |-> o.hit, cacheSame |-> (o.cache = color_cache),
   stored |-> IF p \in DOMAIN o.cache THEN o.cache[p] ELSE <<>>]

\* the first non-empty list a call returned for p (<<>>: none so far)
Remember(p, o) ==
  IF first[p] = <<>> THEN [first EXCEPT ![p] = o.ret] ELSE first

NoOut ==
  [op |-> "none", k |-> 1, aggregate |-> FALSE, ret |-> <<>>,
   palette |-> FALSE, failed |-> FALSE, printed |-> <<>>, listed |-> <<>>,
   invoked |-> <<>>]

walkVars == <<pc, todo, num_colors, display_palette, aggregate, results,
              aggregate_colors, image_count, listed, invoked>>

Init ==
  /\ disk \in FileSystems
  /\ color_cache = <<>>
  /\ pc = "idle"
  /\ todo = <<>>
  /\ num_colors = 1
  /\ display_palette = FALSE
  /\ aggregate = FALSE
  /\ results = <<>>
  /\ aggregate_colors = <<>>
  /\ image_count = 0
  /\ listed = <<>>
  /\ invoked = <<>>
  /\ last = NoCall
  /\ out = NoOut
  /\ first = [p \in Paths |-> <<>>]

\* a caller invokes extract_colors(p, k, show)
Extract(p, k, show) ==
  /\ pc = "idle"
  /\ \E o \in extract_colors(p, k, show) :
       /\ color_cache' = o.cache
       /\ last' = Observe(p, k, o)
       /\ first' = Remember(p, o)
  /\ out' = NoOut
  /\ UNCHANGED <<disk, walkVars>>

\* the file at p is created, replaced or removed by something outside
\* (between calls: a running walk sees the tree it listed)
FileChange(p, c) ==
  /\ pc = "idle"
  /\ c \in ContentsOf(p)
  /\ disk[p] # c
  /\ disk' = [disk EXCEPT ![p] = c]
  /\ last' = NoCall
  /\ out' = NoOut
  /\ UNCHANGED <<color_cache, first, walkVars>>

\* ------------------------------------------------------- analyze_directory
\* mutant: the extension filter is dropped
qualifiesAnyFile(file) == TRUE

\* mutant: the name is matched without lower()
qualifiesCaseSensitive(file) ==
  \E suffix \in SUPPORTED_FORMATS : endswith(file, suffix)

\* file.lower().endswith(SUPPORTED_FORMATS)
qualifies(file) == \E suffix \in SUPPORTED_FORMATS : endswith(lower(file), suffix)

Orderings(S) ==
  {s \in [1..Cardinality(S) -> S] : \A i, j \in DOMAIN s : s[i] = s[j] => i = j}

FilesIn(root) == {p[2] : p \in {q \in Paths : q[1] = root /\ exists(q)}}

RootsUnder(directory) ==
  SelectSeq(Roots, LAMBDA r : r = directory \/ (directory = "d" /\ r = "d/s"))

\* os.walk(directory), flattened by the two loops to the <<root, file>>
\* pairs visited: top down, each directory's files in the order the file
\* system lists them.
RECURSIVE WalkOrders(_)
WalkOrders(roots) ==
  IF roots = <<>> THEN {<<>>}
  ELSE { [i \in 1..Len(f) |-> <<Head(roots), f[i]>>] \o rest :
           f \in Orderings(FilesIn(Head(roots))),
           rest \in WalkOrders(Tail(roots)) }

os_walk(directory) == WalkOrders(RootsUnder(directory))

\* results[file] = colors on the insertion-ordered dict
RECURSIVE store(_, _, _)
store(dict, file, colors) ==
  IF dict = <<>> THEN << <<file, colors>> >>
  ELSE IF Head(dict)[1] = file THEN << <<file, colors>> >> \o Tail(dict)
  ELSE <<Head(dict)>> \o store(Tail(dict), file, colors)

\* [int(color[1:3], 16), int(color[3:5], 16), int(color[5:7], 16)]
channels(color) ==
  <<int16(SubSeq(color, 2, 3)), int16(SubSeq(color, 4, 5)),
    int16(SubSeq(color, 6, 7))>>

\* aggregate_colors[i] of the defaultdict: zeros when i is no key
sums(acc, i) == IF i \in DOMAIN acc THEN acc[i] ELSE <<0, 0, 0>>

\* mutant: only the first color of a list is accumulated
accumulateFirstOnly(acc, colors) ==
  [i \in DOMAIN acc \cup {0} |->
     IF i = 0
       THEN [ch \in 1..3 |-> sums(acc, 0)[ch] + channels(colors[1])[ch]]
       ELSE acc[i]]

\* for i, color in enumerate(colors): aggregate_colors[i] += channels
accumulate(acc, colors) ==
  [i \in DOMAIN acc \cup 0..(Len(colors) - 1) |->
     IF i < Len(colors)
       THEN [ch \in 1..3 |-> sums(acc, i)[ch] + channels(colors[i + 1])[ch]]
       ELSE acc[i]]

\* mutant: the averaging is not guarded by the image count
averagingUnguarded(agg, count) == agg

\* the guard of the averaging
averaging(agg, count) == agg /\ count > 0

\* aggregate_colors[i] / image_count / 255.0, as a float triple
average(acc, i, count) == [ch \in 1..3 |-> <<sums(acc, i)[ch], count * 255>>]

\* mutant: the palette runs over the accumulated indices, not range(k)
aggregatedOverKeys(acc, k, count) ==
  [i \in 1..Cardinality(DOMAIN acc) |-> rgb2hex(average(acc, i - 1, count))]

\* [rgb2hex(aggregate_colors[i] / image_count / 255.0) for i in range(k)]
aggregated_result(acc, k, count) ==
  [i \in 1..k |-> rgb2hex(average(acc, i - 1, count))]

\* format_colors: the lines "Color <n>: <color>" under the fixed header
format_colors(colors) == [i \in 1..Len(colors) |-> <<i, colors[i]>>]

\* main(directory = ..., num_colors = k, display_palette = show,
\* aggregate = agg) enters analyze_directory, which lists the tree
Start(directory, k, show, agg) ==
  /\ pc = "idle"
  /\ pc' = "walk"
  /\ \E w \in os_walk(directory) : todo' = w /\ listed' = w
  /\ num_colors' = k
  /\ display_palette' = show
  /\ aggregate' = agg
  /\ results' = <<>>
  /\ aggregate_colors' = <<>>
  /\ image_count' = 0
  /\ invoked' = <<>>
  /\ last' = NoCall
  /\ out' = NoOut
  /\ UNCHANGED <<disk, color_cache, first>>

\* one iteration of the loops over the walk
Step ==
  /\ pc = "walk"
  /\ todo # <<>>
  /\ LET image_path == Head(todo)
         file == image_path[2]
     IN  IF qualifies(file)
           THEN \E o \in extract_colors(image_path, num_colors, display_palette) :
                  /\ color_cache' = o.cache
                  /\ last' = Observe(image_path, num_colors, o)
                  /\ first' = Remember(image_path, o)
                  /\ invoked' = Append(invoked, <<image_path, o.ret>>)
                  /\ results' = IF o.ret # <<>>
                                  THEN store(results, file, o.ret) ELSE results
                  /\ IF o.ret # <<>> /\ aggregate
                       THEN /\ aggregate_colors' = accumulate(aggregate_colors, o.ret)
                            /\ image_count' = image_count + 1
                       ELSE UNCHANGED <<aggregate_colors, image_count>>
                  \* an exception leaving the extractor leaves the loops,
                  \* analyze_directory and main as well
                  /\ IF o.raised
                       THEN /\ pc' = "idle"
                            /\ todo' = <<>>
                            /\ out' = [NoOut EXCEPT !.op = "aborted"]
                       ELSE /\ todo' = Tail(todo)
                            /\ UNCHANGED <<pc, out>>
           ELSE /\ todo' = Tail(todo)
                /\ UNCHANGED <<color_cache, last, first, invoked, results,
                               aggregate_colors, image_count, pc, out>>
  /\ UNCHANGED <<disk, num_colors, display_palette, aggregate, listed>>

\* the walk is over: analyze_directory returns and main prints.  Dividing
\* the sums by a zero count gives nan, which rgb2hex cannot convert.
Finish ==
  /\ pc = "walk"
  /\ todo = <<>>
  /\ LET avg == averaging(aggregate, image_count)
         fails == avg /\ image_count = 0
         result == IF fails THEN <<>>
                   ELSE IF avg
                     THEN aggregated_result(aggregate_colors, num_colors, image_count)
                     ELSE results
         printed == IF fails THEN <<>>
                    ELSE IF aggregate
                      THEN << <<"aggregated", format_colors(result)>> >>
                      ELSE [i \in 1..Len(result) |->
                              <<result[i][1], format_colors(result[i][2])>>]
     IN  out' = [op |-> "main", k |-> num_colors, aggregate |-> aggregate,
                 ret |-> result, palette |-> avg, failed |-> fails,
                 printed |-> printed, listed |-> listed, invoked |-> invoked]
  /\ pc' = "idle"
  /\ num_colors' = 1
  /\ display_palette' = FALSE
  /\ aggregate' = FALSE
  /\ results' = <<>>
  /\ aggregate_colors' = <<>>
  /\ image_count' = 0
  /\ listed' = <<>>
  /\ invoked' = <<>>
  /\ UNCHANGED <<disk, color_cache, todo, last, first>>

Next ==
  \/ \E p \in Requested, k \in Ks, show \in BOOLEAN : Extract(p, k, show)
  \/ \E p \in Paths, c \in Contents : FileChange(p, c)
  \/ \E d \in Directories, k \in Ks, show \in BOOLEAN, agg \in BOOLEAN :
       Start(d, k, show, agg)
  \/ Step
  \/ Finish

Spec == Init /\ [][Next]_vars

\* The program is one thread: a loop that has started runs on, iteration
\* after iteration, to its return.
FairSpec == Spec /\ WF_vars(Step) /\ WF_vars(Finish)

\* ================================================================ claims
hexRed == <<"#", "f", "f", "0", "0", "0", "0">>

\* The file names of the tree by kind, written out: what the filter is
\* checked against.
ImageNames == {aPNG}
OtherNames == {nTXT}

Called == last.op = "extract"
Done == out.op = "main"

\* the extractor calls of the finished walk that returned colors
Successes == SelectSeq(out.invoked, LAMBDA c : c[2] # <<>>)

Abs(x) == IF x < 0 THEN -x ELSE x

\* what the lists of calls hold at index i (from 1) in channel ch, a list
\* without that index counting as zero
RECURSIVE SumAt(_, _, _)
SumAt(calls, i, ch) ==
  IF calls = <<>> THEN 0
  ELSE (IF i <= Len(Head(calls)[2]) THEN channels(Head(calls)[2][i])[ch] ELSE 0)
       + SumAt(Tail(calls), i, ch)

\* ---- C1
\* C1 as stated: once a call has returned a non-empty list for a path, every
\* later call on that path returns the same list from the cache, whatever
\* has happened to the file.
C1_Original ==
  (Called /\ last.prev # <<>>) => (last.ret = last.prev /\ last.hit)

\* C1 as amended: once a call has returned a non-empty list for a path, every
\* later call on that path made while the path exists returns the same list
\* from the cache, without load, render or error entry, whatever k and show
\* are and whatever the file now holds; when the path no longer exists the
\* call returns the empty list and is no cache hit.
C1_StaleWhileExists ==
  (Called /\ last.prev # <<>>) =>
     IF last.existed
       THEN /\ last.ret = last.prev
            /\ last.hit
            /\ last.errors = 0
            /\ last.render = "none"
            /\ last.cacheSame
       ELSE last.ret = <<>> /\ ~last.hit

\* a hit with another k on a file whose content was replaced since
C1_Witness ==
  /\ Called /\ last.existed /\ last.hit
  /\ last.prev = <<hexRed>>
  /\ last.ret = <<hexRed>>
  /\ last.k = 2
  /\ disk[last.path] = Image(<<Red, Blue>>)

\* ---- C2
\* C2: a call on a valid image returns at most as many colors as the k it
\* was given.
C2_AtMostK ==
  (Called /\ disk[last.path].kind = "image") => Len(last.ret) <= last.k

\* ---- C3
\* C3: a call on a path that does not exist returns the empty list, logs
\* exactly one error, raises nothing and leaves the cache as it was.
C3_Missing ==
  (Called /\ ~last.existed) =>
     /\ last.ret = <<>>
     /\ last.errors = 1
     /\ ~last.raised
     /\ last.cacheSame

\* a call on a missing path that the cache still holds an entry for
C3_Witness ==
  /\ Called /\ ~last.existed
  /\ last.path \in DOMAIN color_cache
  /\ last.ret = <<>>

\* ---- C4
\* C4: with aggregate, when every extracted image gave exactly k colors, the
\* palette has k entries and each channel of entry i is the average of that
\* channel of the images' i-th colors, to within the rounding of the hex
\* conversion (half a unit).
C4_Average ==
  (/\ Done /\ out.aggregate
   /\ Successes # <<>>
   /\ \A j \in DOMAIN Successes : Len(Successes[j][2]) = out.k)
  => /\ out.palette
     /\ Len(out.ret) = out.k
     /\ \A i \in 1..out.k, ch \in 1..3 :
          2 * Abs(Len(Successes) * channels(out.ret[i])[ch]
                  - SumAt(Successes, i, ch)) <= Len(Successes)

\* two images with different color lists of k colors were averaged
C4_Witness ==
  /\ Done /\ out.aggregate /\ out.palette
  /\ Len(Successes) = 2
  /\ \A j \in DOMAIN Successes : Len(Successes[j][2]) = out.k
  /\ Successes[1][2] # Successes[2][2]
  /\ Len(out.ret) = out.k

\* ---- C5
\* C5: with aggregate, when no image is extracted, the result is empty and
\* nothing is divided by the zero count.
C5_NoImages ==
  (Done /\ out.aggregate /\ Successes = <<>>) =>
     /\ out.ret = <<>>
     /\ ~out.palette
     /\ ~out.failed

\* the extractor was called and every call failed
C5_Witness ==
  /\ Done /\ out.aggregate
  /\ Len(out.invoked) = 2
  /\ Successes = <<>>
  /\ out.ret = <<>>

\* ---- C6
\* C6: without aggregate, the mapping has at most as many entries as the
\* tree has files with a supported extension, no key is the name of another
\* file, and the extractor is never called on such a file.
C6_Filter ==
  (Done /\ ~out.aggregate) =>
     /\ Len(out.ret) <=
          Cardinality({i \in DOMAIN out.listed : out.listed[i][2] \in ImageNames})
     /\ \A i \in DOMAIN out.ret : out.ret[i][1] \notin OtherNames
     /\ \A j \in DOMAIN out.invoked : out.invoked[j][1][2] \notin OtherNames

\* the tree held a decodable image under an unsupported name, and an image
\* with an upper-case extension was recorded
C6_Witness ==
  /\ Done /\ ~out.aggregate
  /\ \E i \in DOMAIN out.listed : out.listed[i][2] \in OtherNames
  /\ disk[<<"d", nTXT>>].kind = "image"
  /\ Len(out.ret) = 1

\* ---- C7
\* C7: without aggregate, main prints exactly one report for every file whose
\* extraction returned colors, each showing that file's own list, also when
\* two directories hold files of the same name.
C7_OneReportPerFile ==
  (Done /\ ~out.aggregate) =>
     /\ Len(out.printed) = Len(Successes)
     /\ \A j \in DOMAIN Successes :
          \E r \in DOMAIN out.printed :
             /\ out.printed[r][1] = Successes[j][1][2]
             /\ out.printed[r][2] = format_colors(Successes[j][2])

\* ---- C8
\* C8: when the renderer fails the failure reaches the caller of
\* extract_colors, and a call that returns after rendering returns the list
\* it stored in the cache.
C8_RenderNotCaught ==
  Called =>
     /\ (last.render = "failed" => last.raised)
     /\ ((last.render # "none" /\ ~last.raised) => last.ret = last.stored)

\* ---- C9
\* C9: with aggregate, when some extracted list has another length than k,
\* the call does not fail and the palette has exactly k entries, entry i
\* being the rounded quotient of the sum of the lists' i-th colors, a list
\* without an i-th color adding zero, by the number of images extracted.
C9_ShortLists ==
  (/\ Done /\ out.aggregate
   /\ \E j \in DOMAIN Successes : Len(Successes[j][2]) # out.k)
  => /\ ~out.failed
     /\ out.palette
     /\ Len(out.ret) = out.k
     /\ \A i \in 1..out.k :
          out.ret[i] =
            <<"#">>
            \o format02x(round(SumAt(Successes, i, 1), Len(Successes)))
            \o format02x(round(SumAt(Successes, i, 2), Len(Successes)))
            \o format02x(round(SumAt(Successes, i, 3), Len(Successes)))

\* a list shorter than k (cached under a smaller k) was averaged with a list
\* of k colors
C9_Witness ==
  /\ Done /\ out.aggregate /\ out.k = 2
  /\ Len(Successes) = 2
  /\ \E j \in DOMAIN Successes : Len(Successes[j][2]) = 1
  /\ \E j \in DOMAIN Successes : Len(Successes[j][2]) = 2
  /\ Len(out.ret) = 2

\* ---- C10
\* the files of the finished walk the extractor is due on, in walk order
Due == SelectSeq(out.listed, LAMBDA f : f[2] \in ImageNames)

\* C10: a walk that has started ends; no extractor failure ends it early;
\* the extractor is called exactly once on every qualifying file, in the
\* order of the walk; a name is in the mapping exactly when a file of that
\* name was extracted, so a failing file adds nothing and a file after a
\* failure is recorded.
C10_NeverAborts ==
  /\ (pc = "walk") ~> (pc = "idle")
  /\ [](out.op # "aborted")
  /\ [](Done =>
        /\ [j \in DOMAIN out.invoked |-> out.invoked[j][1]] = Due
        /\ ~out.aggregate =>
             /\ \A j \in DOMAIN Successes :
                  \E i \in DOMAIN out.ret : out.ret[i][1] = Successes[j][1][2]
             /\ \A i \in DOMAIN out.ret :
                  \E j \in DOMAIN Successes :
                     /\ Successes[j][1][2] = out.ret[i][1]
                     /\ Successes[j][2] = out.ret[i][2])

\* a walk whose first file failed and whose second file was recorded
C10_Witness ==
  /\ Done /\ ~out.aggregate
  /\ Len(out.invoked) = 2
  /\ out.invoked[1][2] = <<>>
  /\ out.invoked[2][2] # <<>>
  /\ Len(out.ret) = 1
  /\ out.ret[1][2] = out.invoked[2][2]

====
